---- MODULE Spec2Model ----
(***************************************************************************)
(* Consultation lifecycle and payment settlement of the legal-consultation *)
(* bot: Payment / Consultation rows, the BaseService read-through cache,   *)
(* the two payment services (PaymentService, UnifiedPaymentService), the   *)
(* ConsultationService, the chat/admin handlers that write a status, and   *)
(* the periodic cleanup.                                                   *)
(*                                                                         *)
(* Reading of the persistence calls: session.commit() persists the fields  *)
(* a handler assigned on the instance it obtained; BaseService.get returns *)
(* the cached snapshot of a row when the cache holds one (the decisions of *)
(* the handler are then taken on the snapshot's field values).             *)
(***************************************************************************)
EXTENDS Integers, Sequences, FiniteSets, TLC

(* ------------------------------ bounds -------------------------------- *)
MaxPayments == 1
MaxConsultations == 1
MaxNotify == 2
MaxRefundCalls == 2
MaxTasks == 2
MaxHistory == 2

(* --------------------------- program constants ------------------------ *)
MIN_AMOUNT == 1000
MAX_AMOUNT == 10000000
WORK_START == 9
WORK_END == 18
WORKING_DAYS == {0, 1, 2, 3, 4, 5}

PaymentStatus == {"PENDING", "PROCESSING", "COMPLETED", "FAILED", "CANCELLED", "REFUNDED"}
ConsultationStatus == {"PENDING", "CONFIRMED", "PAID", "SCHEDULED", "IN_PROGRESS",
                       "COMPLETED", "CANCELLED", "REFUNDED"}
PaymentProvider == {"click", "payme", "uzum"}

NoTime == -1
NoRating == 0
NoId == 0
NoTxn == "NONE"
Missing == "MISSING"
SecretKey == "secret"
ForgedKey == "forged"

(* ------------------------------ state --------------------------------- *)
VARIABLES
    payments,        \* Seq of Payment rows, payments[i] has id i
    consultations,   \* Seq of Consultation rows
    cache,           \* BaseService cache: [payments |-> [id -> {} or {snapshot}], consultations |-> ...],
                     \* and slots: day -> {} or {the cached list of free times}
    payCache,        \* ids with a "payment:<id>" entry (snapshot written by create_payment)
    notified,        \* payment id -> number of payment_success notifications attempted
    refundCalls,     \* payment id -> number of provider refund calls issued
    hist,            \* the last operation: name, result, log line, resolved row
    tasks,           \* the webhook requests in flight, each with its own session and position
    eval             \* the last evaluation of a pure function: its name, arguments and result

vars == <<payments, consultations, cache, payCache, notified, refundCalls, hist, tasks, eval>>

TaskIds == 1..MaxTasks

PayIds == 1..MaxPayments
ConsIds == 1..MaxConsultations

(* ------------------------- pure helpers ------------------------------- *)
\* str(int) / int(str) on the decimal numerals the model uses
FormatInt(i) ==
    CASE i = 1 -> "1" [] i = 2 -> "2" [] i = 3 -> "3" [] i = 4 -> "4" [] OTHER -> "0"

IsNumeral(s) == s \in {"0", "1", "2", "3", "4"}

ParseInt(s) ==
    CASE s = "1" -> 1 [] s = "2" -> 2 [] s = "3" -> 3 [] s = "4" -> 4 [] OTHER -> 0

\* f"order_{payment.id}" as the list of its '_'-separated parts
FormatOrder(id) == <<"order", FormatInt(id)>>

\* hmac.new(key, data, sha256).hexdigest(), an ideal MAC: equal digests iff equal key and data
_generate_signature(key, data) == <<key>> \o data

\* the string ClickProvider signs, as the list of the interpolated fields
ClickSignString(data) ==
    <<data.click_trans_id, SecretKey, data.merchant_trans_id, data.amount, data.sign_time>>

\* verify_callback that only tests that a signature is present
verify_callback_unchecked(data) ==
    data.sign_string # <<>>

\* ClickProvider.verify_callback: a missing key raises KeyError, caught, False
verify_callback(data) ==
    IF \/ data.click_trans_id = Missing
       \/ data.merchant_trans_id = Missing
       \/ data.amount = Missing
       \/ data.sign_time = Missing
       \/ data.sign_string = <<>>
    THEN FALSE
    ELSE _generate_signature(SecretKey, ClickSignString(data)) = data.sign_string

\* provider status code -> canonical PaymentStatus name, "NULL" when unparseable
ParseStatus(code) ==
    CASE code = "paid" -> "COMPLETED"
      [] code = "failed" -> "FAILED"
      [] code = "cancelled" -> "CANCELLED"
      [] code = "processing" -> "PROCESSING"
      [] OTHER -> "NULL"

\* adapter parse_callback: {order_id, status, transaction_id} or null
parse_callback(data) ==
    IF ParseStatus(data.code) = "NULL" \/ data.click_trans_id = Missing
    THEN {}
    ELSE {[order_id |-> data.order_id,
           status |-> ParseStatus(data.code),
           transaction_id |-> data.click_trans_id]}

\* get_payment_provider(provider): the adapter registry
get_payment_provider(provider) == provider \in PaymentProvider

\* adapter.process_callback(data): verify, then parse; {} stands for None
provider_process_callback(data) ==
    IF verify_callback(data) THEN parse_callback(data) ELSE {}

\* the providers of UnifiedPaymentService that define verify_callback
HasVerifyCallback(provider) == provider = "click"

(* --------------------------- rows and cache --------------------------- *)
NewPayment(amount, consultation_id, provider) ==
    [consultation_id |-> consultation_id,
     amount |-> amount,
     provider |-> provider,
     status |-> "PENDING",
     transaction_id |-> NoTxn,
     provider_transaction_id |-> NoTxn,
     refund_amount |-> 0,
     refund |-> FALSE]

NewConsultation(amount) ==
    [status |-> "PENDING",
     amount |-> amount,
     scheduled_time |-> NoTime,
     is_paid |-> FALSE,
     paid_at |-> FALSE,
     payment_id |-> NoId,
     payment_completed_at |-> FALSE,
     refunded |-> FALSE,
     rating |-> NoRating,
     completed_at |-> FALSE,
     reschedule_count |-> 0,
     rescheduled_from |-> NoTime,
     cancellation_deadline |-> NoTime,
     meta_completed_at |-> FALSE,
     meta_rating |-> NoRating,
     meta_feedback |-> "",
     meta_cancelled_at |-> NoTime,
     meta_cancelled_by_user |-> "unset",
     meta_cancellation_reason |-> "",
     meta_status_history |-> 0]

EmptyCache(n) == [i \in 1..n |-> {}]

\* the days get_available_slots is asked about: Monday, Wednesday and Sunday of one week
SlotDays == {0, 2, 6}

\* no "slots:<date>:all" entry for any day
EmptySlots == [d \in SlotDays |-> {}]

\* instance.to_dict(), restricted to the columns a handler reads from a fetched instance
to_dict(table, row) ==
    IF table = "payments"
    THEN [status |-> row.status, consultation_id |-> row.consultation_id,
          provider |-> row.provider, transaction_id |-> row.transaction_id]
    ELSE [status |-> row.status, amount |-> row.amount, payment_id |-> row.payment_id]

\* BaseService.get: the cached snapshot if there is one, else the row; {} when absent
Get(table, rows, id) ==
    IF id \in DOMAIN cache[table] /\ cache[table][id] # {}
    THEN cache[table][id]
    ELSE IF id \in DOMAIN rows THEN {to_dict(table, rows[id])} ELSE {}

\* the cache after BaseService.get: a found row is cached on a miss
CacheAfterGet(table, rows, id) ==
    IF id \in DOMAIN cache[table] /\ cache[table][id] = {} /\ id \in DOMAIN rows
    THEN [cache EXCEPT ![table][id] = {to_dict(table, rows[id])}]
    ELSE cache

Bump(f, id, cap) == [f EXCEPT ![id] = IF @ < cap THEN @ + 1 ELSE @]

\* the record of the last operation: its name, its result, the line it logged, and (when it
\* resolved a row) the provider key, the row id and the status it was asked to write
Op(name, ret, log, provider, id, status) ==
    [op |-> name, ret |-> ret, log |-> log, provider |-> provider, id |-> id, status |-> status]

Rejected(name, ret, log) == Op(name, ret, log, "-", NoId, "-")

NoEval == [fn |-> "none"]

IdleTask ==
    [pc |-> "idle", id |-> NoId, consultation_id |-> NoId, old_status |-> "-",
     new_status |-> "-", transaction_id |-> NoTxn, scheduled_time |-> NoTime, ret |-> "none"]

(* ------------------------------ inputs -------------------------------- *)
Providers == {"click", "payme", "unknown"}
Times == {10, 18}
Statuses == ConsultationStatus
Amounts == {500, 50000}
ConsultationAmounts == {40000, 50000}

Payload(c, o, k, signer) ==
    LET fields == [click_trans_id |-> c, merchant_trans_id |-> "order", amount |-> "50000",
                   sign_time |-> "0", order_id |-> o, code |-> k, sign_string |-> <<>>]
    IN  [fields EXCEPT !.sign_string =
            CASE signer = "good" -> _generate_signature(SecretKey, ClickSignString(fields))
              [] signer = "forged" -> _generate_signature(ForgedKey, ClickSignString(fields))
              [] OTHER -> <<>>]

ValidPayloads ==
    {Payload("T1", FormatOrder(i), k, "good") : i \in PayIds, k \in {"paid", "failed"}}
        \cup {Payload("T1", FormatOrder(MaxPayments + 1), "paid", "good")}

InvalidPayloads ==
    {Payload("T1", FormatOrder(1), "paid", "forged"),
     Payload("T1", FormatOrder(1), "paid", "none"),
     Payload(Missing, FormatOrder(1), "paid", "good"),
     Payload("T1", FormatOrder(1), "garbage", "good"),
     Payload("T1", <<"order", "x">>, "paid", "good"),
     Payload("T1", <<"order">>, "paid", "good"),
     Payload("T1", <<"pay", "1">>, "paid", "good")}

Payloads == ValidPayloads \cup InvalidPayloads

\* the webhook deliveries: every payload through click, one through each other provider key
Deliveries ==
    {<<"click", d>> : d \in Payloads}
        \cup {<<p, Payload("T1", FormatOrder(1), "paid", "good")>> : p \in Providers}

(* ------------------------------- Init --------------------------------- *)
Init ==
    /\ payments = <<>>
    /\ consultations = <<>>
    /\ cache = [payments |-> EmptyCache(MaxPayments), consultations |-> EmptyCache(MaxConsultations),
                slots |-> EmptySlots]
    /\ payCache = {}
    /\ notified = [i \in PayIds |-> 0]
    /\ refundCalls = [i \in PayIds |-> 0]
    /\ hist = Rejected("init", "none", "")
    /\ tasks = [t \in TaskIds |-> IdleTask]
    /\ eval = NoEval

(* ------------------------- consultation creation ---------------------- *)
\* ConsultationService.create_consultation: amount window, insert PENDING, cache the row
create_consultation(amount) ==
    IF amount < 50000 \/ amount > 1000000
    THEN /\ hist' = Rejected("create_consultation", "ValidationError", "")
         /\ UNCHANGED <<payments, consultations, cache, payCache, notified, refundCalls>>
    ELSE LET id == Len(consultations) + 1
             row == NewConsultation(amount)
         IN  /\ consultations' = Append(consultations, row)
             /\ cache' = [cache EXCEPT !.consultations[id] = {to_dict("consultations", row)}]
             /\ hist' = Rejected("create_consultation", "ok", "")
             /\ UNCHANGED <<payments, payCache, notified, refundCalls>>

\* an amount check that has no upper limit
AmountRejected_above_unchecked(amount) == amount < MIN_AMOUNT

\* create_payment's amount check, before the try block
AmountRejected(amount) == amount < MIN_AMOUNT \/ amount > MAX_AMOUNT

\* a checkout failure that would take the inserted row back out
RowsAfterUrlFailure_rolled_back(rows, row) == rows

\* the payments table when no checkout URL came back: self.create has committed the row and
\* the except branch only logs and raises PaymentError
RowsAfterUrlFailure(rows, row) == Append(rows, row)

(* --------------------------- PaymentService --------------------------- *)
\* PaymentService.create_payment; url_ok is the outcome of the adapter's checkout call
PaymentService_create_payment(amount, consultation_id, provider, url_ok) ==
    LET id == Len(payments) + 1
        row == NewPayment(amount, consultation_id, provider)
    IN  IF AmountRejected(amount)
        THEN /\ hist' = Rejected("create_payment", "PaymentError", "Amount must be between")
             /\ UNCHANGED <<payments, consultations, cache, payCache, notified, refundCalls>>
        ELSE IF \/ ~get_payment_provider(provider)
                \/ consultation_id \notin DOMAIN consultations
        THEN /\ hist' = Rejected("create_payment", "PaymentError", "")
             /\ UNCHANGED <<payments, consultations, cache, payCache, notified, refundCalls>>
        ELSE /\ cache' = [cache EXCEPT !.payments[id] = {to_dict("payments", row)}]
             /\ IF url_ok
                THEN /\ payments' = Append(payments, row)
                     /\ payCache' = payCache \cup {id}
                     /\ hist' = Op("create_payment", "ok", "", provider, id, "-")
                ELSE /\ payments' = RowsAfterUrlFailure(payments, row)
                     /\ payCache' = payCache
                     /\ hist' = Op("create_payment", "PaymentError",
                                   "Failed to get payment URL", provider, id, "-")
             /\ UNCHANGED <<consultations, notified, refundCalls>>

\* a registry lookup that finds an adapter under every key
providers_get_any(provider) == TRUE

\* self.providers.get(provider): is there an adapter under this key
providers_get(provider) == provider \in PaymentProvider

\* UnifiedPaymentService.create_payment: the same limits, self.providers as the registry
UnifiedPaymentService_create_payment(amount, consultation_id, provider, url_ok) ==
    LET id == Len(payments) + 1
        row == NewPayment(amount, consultation_id, provider)
    IN  IF AmountRejected(amount)
        THEN /\ hist' = Rejected("unified_create_payment", "PaymentError", "Amount must be between")
             /\ UNCHANGED <<payments, consultations, cache, payCache, notified, refundCalls>>
        ELSE IF ~providers_get(provider)
        THEN /\ hist' = Rejected("unified_create_payment", "PaymentError",
                                 "Unknown payment provider")
             /\ UNCHANGED <<payments, consultations, cache, payCache, notified, refundCalls>>
        ELSE IF consultation_id \notin DOMAIN consultations
        THEN /\ hist' = Rejected("unified_create_payment", "PaymentError", "")
             /\ UNCHANGED <<payments, consultations, cache, payCache, notified, refundCalls>>
        ELSE /\ cache' = [cache EXCEPT !.payments[id] = {to_dict("payments", row)}]
             /\ IF url_ok
                THEN /\ payments' = Append(payments, row)
                     /\ payCache' = payCache \cup {id}
                     /\ hist' = Op("unified_create_payment", "ok", "", provider, id, "-")
                ELSE /\ payments' = RowsAfterUrlFailure(payments, row)
                     /\ payCache' = payCache
                     /\ hist' = Op("unified_create_payment", "PaymentError",
                                   "Failed to get payment URL", provider, id, "-")
             /\ UNCHANGED <<consultations, notified, refundCalls>>

\* _get_payment_by_order that is off by one in the id it parses
_get_payment_by_order_previous(order_id) ==
    IF Len(order_id) < 2 \/ order_id[1] # "order" THEN NoId
    ELSE IF ~IsNumeral(order_id[2]) \/ ParseInt(order_id[2]) = 0 THEN NoId
    ELSE ParseInt(order_id[2]) - 1

\* PaymentService._get_payment_by_order: the payment id an order reference names, NoId if none
_get_payment_by_order(order_id) ==
    IF Len(order_id) < 2 \/ order_id[1] # "order" THEN NoId
    ELSE IF ~IsNumeral(order_id[2]) THEN NoId
    ELSE ParseInt(order_id[2])

\* _handle_payment_status_change, the consultation part
HandleConsultation(rows, payment) ==
    IF payment.status = "COMPLETED" /\ payment.consultation_id \in DOMAIN rows
    THEN [rows EXCEPT ![payment.consultation_id] =
              [@ EXCEPT !.status = "PAID", !.payment_completed_at = TRUE]]
    ELSE rows

\* _handle_payment_status_change, the notification part
HandleNotify(counts, id, payment) ==
    IF payment.status = "COMPLETED" THEN Bump(counts, id, MaxNotify) ELSE counts

\* the status PaymentService.process_callback writes for a parsed callback
CallbackStatus(old_status, parsed_status) == parsed_status

\* the status comparison inverted
StatusChanged_inverted(old_status, new_status) == old_status = new_status

\* does process_callback run the status-change handling
StatusChanged(old_status, new_status) == old_status # new_status

\* what PaymentService.process_callback resolves: the parsed data and the payment id
Parsed(provider, data) ==
    IF get_payment_provider(provider) THEN provider_process_callback(data) ELSE {}

ResolvedId(provider, data) ==
    IF Parsed(provider, data) = {} THEN NoId
    ELSE _get_payment_by_order((CHOOSE d \in Parsed(provider, data) : TRUE).order_id)

\* PaymentService.process_callback
PaymentService_process_callback(provider, data) ==
    LET parsed == Parsed(provider, data)
        id == ResolvedId(provider, data)
        found == IF id = NoId THEN {} ELSE Get("payments", payments, id)
    IN  IF found = {}
        THEN /\ hist' = Rejected("process_callback", "false",
                            IF ~get_payment_provider(provider)
                            THEN "Error processing payment callback"
                            ELSE IF parsed = {} THEN "Failed to parse callback data"
                            ELSE "Payment not found")
             /\ UNCHANGED <<payments, consultations, cache, payCache, notified, refundCalls>>
        ELSE LET payment_data == CHOOSE d \in parsed : TRUE
                 payment == CHOOSE p \in found : TRUE
                 old_status == payment.status
                 new_status == CallbackStatus(old_status, payment_data.status)
                 updated == [payment EXCEPT !.status = new_status,
                                            !.transaction_id = payment_data.transaction_id]
             IN  /\ payments' = [payments EXCEPT ![id] =
                                    [@ EXCEPT !.status = new_status,
                                              !.transaction_id = payment_data.transaction_id]]
                 /\ cache' = CacheAfterGet("payments", payments, id)
                 /\ payCache' = payCache \ {id}
                 /\ IF StatusChanged(old_status, new_status)
                    THEN /\ consultations' = HandleConsultation(consultations, updated)
                         /\ notified' = HandleNotify(notified, id, updated)
                    ELSE UNCHANGED <<consultations, notified>>
                 /\ hist' = Op("process_callback", "true", "", provider, id, payment_data.status)
                 /\ UNCHANGED refundCalls

(* ----------------------- UnifiedPaymentService ------------------------ *)
\* the status UnifiedPaymentService.process_callback writes
UnifiedCallbackStatus(data) == "COMPLETED"

UnifiedVerified(provider, data) ==
    /\ providers_get(provider)
    /\ HasVerifyCallback(provider)
    /\ verify_callback(data)

UnifiedResolvedId(provider, data) ==
    IF UnifiedVerified(provider, data) /\ Len(data.order_id) >= 2 /\ IsNumeral(data.order_id[2])
    THEN ParseInt(data.order_id[2]) ELSE NoId

\* UnifiedPaymentService.process_callback
UnifiedPaymentService_process_callback(provider, data) ==
    LET id == UnifiedResolvedId(provider, data)
        found == IF id = NoId THEN {} ELSE Get("payments", payments, id)
    IN  IF found = {}
        THEN /\ hist' = Rejected("unified_process_callback", "false",
                            IF ~providers_get(provider) THEN "Unknown provider"
                            ELSE IF ~HasVerifyCallback(provider) THEN "AttributeError"
                            ELSE IF ~verify_callback(data) THEN "Invalid callback signature"
                            ELSE IF id = NoId THEN "IndexError or ValueError"
                            ELSE "Payment not found")
             /\ UNCHANGED <<payments, consultations, cache, payCache, notified, refundCalls>>
        ELSE LET payment == CHOOSE p \in found : TRUE
                 old_status == payment.status
                 new_status == UnifiedCallbackStatus(data)
                 updated == [payment EXCEPT !.status = new_status]
             IN  /\ payments' = [payments EXCEPT ![id] = [@ EXCEPT !.status = new_status]]
                 /\ cache' = CacheAfterGet("payments", payments, id)
                 /\ payCache' = payCache \ {id}
                 /\ IF StatusChanged(old_status, new_status)
                    THEN /\ consultations' = HandleConsultation(consultations, updated)
                         /\ notified' = HandleNotify(notified, id, updated)
                    ELSE UNCHANGED <<consultations, notified>>
                 /\ hist' = Op("unified_process_callback", "true", "", provider, id,
                               ParseStatus(data.code))
                 /\ UNCHANGED refundCalls

\* the provider refund call is issued for a payment in this status only
RefundAllowed(payment) == payment.status = "COMPLETED"

\* a refund that is booked whatever the adapter answered
PaymentAfterRefund_unconditional(payment, accepted) ==
    [payment EXCEPT !.status = "REFUNDED", !.refund = TRUE]

\* the payment row after the adapter answered the refund call: status and refund metadata are
\* written only under 'if refund_success'
PaymentAfterRefund(payment, accepted) ==
    IF accepted THEN [payment EXCEPT !.status = "REFUNDED", !.refund = TRUE] ELSE payment

\* PaymentService.process_refund; accepted is the adapter's answer to the refund call
PaymentService_process_refund(payment_id, accepted) ==
    LET found == Get("payments", payments, payment_id)
    IN  IF found = {}
        THEN /\ hist' = Rejected("process_refund", "false", "Payment not found")
             /\ UNCHANGED <<payments, consultations, cache, payCache, notified, refundCalls>>
        ELSE LET payment == CHOOSE p \in found : TRUE
             IN  /\ cache' = CacheAfterGet("payments", payments, payment_id)
                 /\ UNCHANGED <<consultations, notified>>
                 /\ IF ~RefundAllowed(payment)
                    THEN /\ hist' = Rejected("process_refund", "false",
                                             "Only completed payments can be refunded")
                         /\ UNCHANGED <<payments, payCache, refundCalls>>
                    ELSE /\ refundCalls' = Bump(refundCalls, payment_id, MaxRefundCalls)
                         /\ payments' = [payments EXCEPT ![payment_id] =
                                                PaymentAfterRefund(@, accepted)]
                         /\ IF accepted
                            THEN /\ payCache' = payCache \ {payment_id}
                                 /\ hist' = Op("process_refund", "true", "", "-", payment_id, "-")
                            ELSE /\ hist' = Op("process_refund", "false", "", "-", payment_id, "-")
                                 /\ UNCHANGED payCache

(* ------------------------- Payment model helpers ---------------------- *)
\* Payment.is_refundable without the age term
is_refundable(payment) ==
    payment.status = "COMPLETED" /\ payment.refund_amount = 0

\* Payment.complete / fail / cancel: the status is assigned whatever it was
Payment_set_status(id, name, status, txn) ==
    /\ id \in DOMAIN payments
    /\ payments' = [payments EXCEPT ![id] =
            [@ EXCEPT !.status = status,
                      !.provider_transaction_id = IF name = "Payment.complete" THEN txn ELSE @]]
    /\ hist' = Rejected(name, "ok", "")
    /\ UNCHANGED <<consultations, cache, payCache, notified, refundCalls>>

\* Payment.refund / Payment.process_refund: guarded by is_refundable
Payment_refund(id, amount) ==
    /\ id \in DOMAIN payments
    /\ IF is_refundable(payments[id])
       THEN /\ payments' = [payments EXCEPT ![id] =
                   [@ EXCEPT !.status = "REFUNDED", !.refund_amount = amount, !.refund = TRUE]]
            /\ hist' = Rejected("Payment.refund", "ok", "")
       ELSE /\ hist' = Rejected("Payment.refund", "ValueError", "Payment cannot be refunded")
            /\ UNCHANGED payments
    /\ UNCHANGED <<consultations, cache, payCache, notified, refundCalls>>

(* ------------------------------- time -------------------------------- *)
\* time in hours
DAY == 24
REFUND_DAYS == 30

\* timedelta.days of a non-negative difference given in hours
days(delta) == delta \div DAY

\* models/consultations.py Payment.is_refundable (the Payment the services import)
Payment_is_refundable(status, refund_amount, created_at, utcnow) ==
    /\ status = "COMPLETED"
    /\ refund_amount = 0
    /\ days(utcnow - created_at) <= REFUND_DAYS

\* models/payments.py Payment.is_refundable: no age term, a no_refund flag in the metadata
Payment_is_refundable_flag(status, refund_amount, no_refund) ==
    /\ status = "COMPLETED"
    /\ refund_amount = 0
    /\ ~no_refund

\* the ages since creation (hours) and refund amounts the property is evaluated on
Ages == {0, 29 * DAY, 30 * DAY, 30 * DAY + 1, 30 * DAY + 23, 31 * DAY, 31 * DAY + 1, 60 * DAY}
RefundAmounts == {0, 50000}

EvalRefundable ==
    /\ \E st \in PaymentStatus, r \in RefundAmounts, age \in Ages :
            eval' = [fn |-> "is_refundable", status |-> st, refund_amount |-> r, age |-> age,
                     out |-> Payment_is_refundable(st, r, 0, age)]
    /\ UNCHANGED <<payments, consultations, cache, payCache, notified, refundCalls, hist, tasks>>

EvalRefundableFlag ==
    /\ \E st \in PaymentStatus, r \in RefundAmounts, age \in Ages, flag \in BOOLEAN :
            eval' = [fn |-> "is_refundable_flag", status |-> st, refund_amount |-> r,
                     age |-> age, no_refund |-> flag,
                     out |-> Payment_is_refundable_flag(st, r, flag)]
    /\ UNCHANGED <<payments, consultations, cache, payCache, notified, refundCalls, hist, tasks>>

NextRefundable ==
    \/ EvalRefundable
    \/ EvalRefundableFlag

SpecRefundable == Init /\ [][NextRefundable]_vars

(* ------------------------------ cleanup ------------------------------- *)
\* BackgroundTaskManager._cleanup_expired_data: PaymentStatus has no member EXPIRED, so the
\* assignment raises for the first stale PENDING payment and nothing is committed
HasExpiredMember == "EXPIRED" \in PaymentStatus

_cleanup_expired_data(stale) ==
    /\ stale \subseteq {i \in DOMAIN payments : payments[i].status = "PENDING"}
    /\ IF stale # {} /\ ~HasExpiredMember
       THEN /\ hist' = Rejected("cleanup", "none", "Error in cleanup task")
            /\ UNCHANGED payments
       ELSE /\ payments' = [i \in DOMAIN payments |->
                   IF i \in stale THEN [payments[i] EXCEPT !.status = "EXPIRED"] ELSE payments[i]]
            /\ hist' = Rejected("cleanup", "none", "Cleanup completed successfully")
    /\ UNCHANGED <<consultations, cache, payCache, notified, refundCalls>>

(* ------------------------- ConsultationService ------------------------ *)
weekday(t) == (t \div 24) % 7
hour(t) == t % 24

\* ConsultationService._is_valid_time
_is_valid_time(dt) ==
    weekday(dt) \in WORKING_DAYS /\ WORK_START <= hour(dt) /\ hour(dt) < WORK_END

\* ConsultationService._is_time_available: a query on the rows
_is_time_available(dt) ==
    ~\E i \in DOMAIN consultations :
        /\ consultations[i].scheduled_time = dt
        /\ consultations[i].status \in {"SCHEDULED", "CONFIRMED"}

\* a ConsultationService method that found no row returns False
ConsNotFound(name) ==
    /\ hist' = Rejected(name, "false", "")
    /\ UNCHANGED <<payments, consultations, cache, payCache, notified, refundCalls>>

\* a ConsultationService method that raises ValidationError after its BaseService.get
ConsRaise(name, id, msg) ==
    /\ hist' = Rejected(name, "ValidationError", msg)
    /\ cache' = CacheAfterGet("consultations", consultations, id)
    /\ UNCHANGED <<payments, consultations, payCache, notified, refundCalls>>

\* the fields a ConsultationService method commits, after its BaseService.get
ConsCommit(name, id, row) ==
    /\ consultations' = [consultations EXCEPT ![id] = row]
    /\ hist' = Rejected(name, "true", "")
    /\ cache' = CacheAfterGet("consultations", consultations, id)
    /\ UNCHANGED <<payments, payCache, notified, refundCalls>>

\* what follows the commit in schedule_consultation: self.cache.delete_pattern('slots:*') is
\* called on a CacheService that has no such method, so the call ends in AttributeError with
\* the row committed and no slot entry deleted
AfterScheduleCommit(name) == Rejected(name, "AttributeError", "delete_pattern")

\* ConsultationService.schedule_consultation
schedule_consultation(consultation_id, scheduled_time) ==
    LET found == Get("consultations", consultations, consultation_id)
        consultation == CHOOSE c \in found : TRUE
    IN  IF found = {} THEN ConsNotFound("schedule_consultation")
        ELSE IF consultation.status # "PAID"
        THEN ConsRaise("schedule_consultation", consultation_id, "Consultation must be paid first")
        ELSE IF ~_is_valid_time(scheduled_time)
        THEN ConsRaise("schedule_consultation", consultation_id, "Invalid consultation time")
        ELSE IF ~_is_time_available(scheduled_time)
        THEN ConsRaise("schedule_consultation", consultation_id, "Selected time is not available")
        ELSE /\ consultations' = [consultations EXCEPT ![consultation_id] =
                    [@ EXCEPT !.scheduled_time = scheduled_time, !.status = "SCHEDULED"]]
             /\ cache' = CacheAfterGet("consultations", consultations, consultation_id)
             /\ hist' = AfterScheduleCommit("schedule_consultation")
             /\ UNCHANGED <<payments, payCache, notified, refundCalls>>

\* ConsultationService.confirm_payment
confirm_payment(consultation_id, payment_id, amount) ==
    LET found == Get("consultations", consultations, consultation_id)
        consultation == CHOOSE c \in found : TRUE
    IN  IF found = {} THEN ConsNotFound("confirm_payment")
        ELSE IF consultation.status # "PENDING"
        THEN ConsRaise("confirm_payment", consultation_id, "Invalid consultation status")
        ELSE IF consultation.amount # amount
        THEN ConsRaise("confirm_payment", consultation_id, "Payment amount mismatch")
        ELSE ConsCommit("confirm_payment", consultation_id,
                        [consultations[consultation_id] EXCEPT
                            !.status = "PAID", !.payment_id = payment_id])

\* ConsultationService._process_refund, the provider side: a refund of the payment the
\* consultation's metadata names is requested
_process_refund(calls, consultation) ==
    IF consultation.payment_id \in DOMAIN calls
    THEN Bump(calls, consultation.payment_id, MaxRefundCalls)
    ELSE calls

\* ConsultationService.cancel_consultation: the refund branch tests the status of the
\* instance after CANCELLED was assigned to it
cancel_consultation(consultation_id, reason, cancelled_by_user, utcnow) ==
    LET found == Get("consultations", consultations, consultation_id)
        consultation == CHOOSE c \in found : TRUE
        cancelled == [consultation EXCEPT !.status = "CANCELLED"]
    IN  IF found = {} THEN ConsNotFound("cancel_consultation")
        ELSE IF consultation.status \notin {"PENDING", "SCHEDULED"}
        THEN ConsRaise("cancel_consultation", consultation_id, "Cannot cancel this consultation")
        ELSE /\ consultations' = [consultations EXCEPT ![consultation_id] =
                    [@ EXCEPT !.status = "CANCELLED",
                              !.meta_cancelled_at = utcnow,
                              !.meta_cancelled_by_user = IF cancelled_by_user THEN "true" ELSE "false",
                              !.meta_cancellation_reason = IF reason # "" THEN reason ELSE @]]
             /\ hist' = Rejected("cancel_consultation", "true", "")
             /\ cache' = CacheAfterGet("consultations", consultations, consultation_id)
             /\ refundCalls' = IF cancelled.status = "PAID"
                               THEN _process_refund(refundCalls, cancelled)
                               ELSE refundCalls
             /\ UNCHANGED <<payments, payCache, notified>>

\* the table's completed_consultation_check as the database evaluates it: the column holds
\* the member names of ConsultationStatus, the constraint compares it with the value 'completed'
completed_consultation_check(row) ==
    row.status # "completed" \/ (row.rating # NoRating /\ row.completed_at)

\* ConsultationService.complete_consultation: completion time, rating and feedback go to the
\* metadata, the columns rating and completed_at are not assigned
complete_consultation(consultation_id, rating, feedback) ==
    LET found == Get("consultations", consultations, consultation_id)
        consultation == CHOOSE c \in found : TRUE
    IN  IF found = {} THEN ConsNotFound("complete_consultation")
        ELSE IF consultation.status # "SCHEDULED"
        THEN ConsRaise("complete_consultation", consultation_id, "Cannot complete this consultation")
        ELSE LET completed == [consultations[consultation_id] EXCEPT
                                    !.status = "COMPLETED",
                                    !.meta_completed_at = TRUE,
                                    !.meta_rating = IF rating # NoRating THEN rating ELSE @,
                                    !.meta_feedback = IF rating # NoRating THEN feedback ELSE @]
             IN  IF completed_consultation_check(completed)
                 THEN ConsCommit("complete_consultation", consultation_id, completed)
                 ELSE ConsRaise("complete_consultation", consultation_id, "IntegrityError")

\* Consultation.mark_paid: no status test
mark_paid(consultation) ==
    [consultation EXCEPT !.is_paid = TRUE, !.paid_at = TRUE, !.status = "PAID"]

(* ------------------------------ handlers ------------------------------ *)
\* ConsultationService.get_consultation: the row by id
get_consultation(consultation_id) ==
    IF consultation_id \in DOMAIN consultations THEN {consultations[consultation_id]} ELSE {}

\* bot/handlers/payments.py handle_payment_cancellation (called by the owner)
handle_payment_cancellation(consultation_id) ==
    IF get_consultation(consultation_id) = {}
    THEN /\ hist' = Rejected("handle_payment_cancellation", "none", "consultation_not_found")
         /\ UNCHANGED <<payments, consultations, cache, payCache, notified, refundCalls>>
    ELSE /\ consultations' = [consultations EXCEPT ![consultation_id] =
                                  [@ EXCEPT !.status = "CANCELLED"]]
         /\ hist' = Rejected("handle_payment_cancellation", "none", "payment_cancelled")
         /\ UNCHANGED <<payments, cache, payCache, notified, refundCalls>>

\* admin/api.py update_consultation_status; metadata["status_history"] is kept as the
\* number of records in the list
update_consultation_status(consultation_id, new_status, scheduled_time) ==
    IF get_consultation(consultation_id) = {}
    THEN /\ hist' = Rejected("update_consultation_status", "404", "Consultation not found")
         /\ UNCHANGED <<payments, consultations, cache, payCache, notified, refundCalls>>
    ELSE LET updated == [consultations[consultation_id] EXCEPT
                  !.status = new_status,
                  !.meta_status_history = @ + 1,
                  !.scheduled_time = IF new_status = "SCHEDULED" /\ scheduled_time # NoTime
                                     THEN scheduled_time ELSE @]
         IN  IF completed_consultation_check(updated)
             THEN /\ consultations' = [consultations EXCEPT ![consultation_id] = updated]
                  /\ hist' = Rejected("update_consultation_status", "success", "")
                  /\ UNCHANGED <<payments, cache, payCache, notified, refundCalls>>
             ELSE /\ hist' = Rejected("update_consultation_status", "500", "Internal server error")
                  /\ UNCHANGED <<payments, consultations, cache, payCache, notified, refundCalls>>

\* bot/handlers/payments.py process_payment_selection (called by the owner): the consultation
\* must be PENDING, then PaymentService.create_payment
process_payment_selection(provider, consultation_id, amount, url_ok) ==
    LET found == get_consultation(consultation_id)
    IN  IF found = {}
        THEN /\ hist' = Rejected("process_payment_selection", "none", "not_found")
             /\ UNCHANGED <<payments, consultations, cache, payCache, notified, refundCalls>>
        ELSE IF (CHOOSE c \in found : TRUE).status # "PENDING"
        THEN /\ hist' = Rejected("process_payment_selection", "none", "already_paid")
             /\ UNCHANGED <<payments, consultations, cache, payCache, notified, refundCalls>>
        ELSE PaymentService_create_payment(amount, consultation_id, provider, url_ok)

(* ------------------------------ the cache ----------------------------- *)
\* a BaseService cache entry reaches its timeout
CacheExpire(table, id) ==
    /\ cache[table][id] # {}
    /\ cache' = [cache EXCEPT ![table][id] = {}]
    /\ hist' = Rejected("cache_expire", "none", "")
    /\ UNCHANGED <<payments, consultations, payCache, notified, refundCalls>>

(* ------------------- process_callback, await by await ------------------ *)
\* PaymentService.process_callback up to the return of self.get: the request's session holds
\* its own instance of the payment, old_status is read from it
cb_get(t, provider, data) ==
    LET parsed == Parsed(provider, data)
        id == ResolvedId(provider, data)
        found == IF id = NoId THEN {} ELSE Get("payments", payments, id)
    IN  /\ tasks[t].pc = "idle"
        /\ IF found = {}
           THEN /\ tasks' = [tasks EXCEPT ![t] = [IdleTask EXCEPT !.pc = "done", !.ret = "false"]]
                /\ UNCHANGED cache
           ELSE LET payment_data == CHOOSE d \in parsed : TRUE
                    payment == CHOOSE p \in found : TRUE
                IN  /\ tasks' = [tasks EXCEPT ![t] =
                            [pc |-> "loaded", id |-> id,
                             consultation_id |-> payment.consultation_id,
                             old_status |-> payment.status,
                             new_status |-> CallbackStatus(payment.status, payment_data.status),
                             transaction_id |-> payment_data.transaction_id,
                             scheduled_time |-> NoTime,
                             ret |-> "none"]]
                    /\ cache' = CacheAfterGet("payments", payments, id)
        /\ UNCHANGED <<payments, consultations, payCache, notified, refundCalls, hist, eval>>

\* await self.session.commit() and the cache delete
cb_commit(t) ==
    LET task == tasks[t]
    IN  /\ task.pc = "loaded"
        /\ payments' = [payments EXCEPT ![task.id] =
                           [@ EXCEPT !.status = task.new_status,
                                     !.transaction_id = task.transaction_id]]
        /\ payCache' = payCache \ {task.id}
        /\ tasks' = [tasks EXCEPT ![t] =
                        IF StatusChanged(task.old_status, task.new_status)
                        THEN [task EXCEPT !.pc = "committed"]
                        ELSE [task EXCEPT !.pc = "done", !.ret = "true"]]
        /\ UNCHANGED <<consultations, cache, notified, refundCalls, hist, eval>>

\* the instance the request holds after its commit
TaskPayment(task) ==
    [status |-> task.new_status, consultation_id |-> task.consultation_id]

\* _handle_payment_status_change: the consultation is read, set PAID and committed
cb_handle(t) ==
    /\ tasks[t].pc = "committed"
    /\ consultations' = HandleConsultation(consultations, TaskPayment(tasks[t]))
    /\ tasks' = [tasks EXCEPT ![t].pc = "handled"]
    /\ UNCHANGED <<payments, cache, payCache, notified, refundCalls, hist, eval>>

\* _notify_user_about_payment, then return True
cb_notify(t) ==
    /\ tasks[t].pc = "handled"
    /\ notified' = HandleNotify(notified, tasks[t].id, TaskPayment(tasks[t]))
    /\ tasks' = [tasks EXCEPT ![t].pc = "done", ![t].ret = "true"]
    /\ UNCHANGED <<payments, consultations, cache, payCache, refundCalls, hist, eval>>

(* -------------------- process_refund, await by await ------------------- *)
\* PaymentService.process_refund up to the return of self.get
rf_get(t, payment_id) ==
    LET found == Get("payments", payments, payment_id)
    IN  /\ tasks[t].pc = "idle"
        /\ IF found = {}
           THEN /\ tasks' = [tasks EXCEPT ![t] = [IdleTask EXCEPT !.pc = "done", !.ret = "false"]]
                /\ UNCHANGED cache
           ELSE /\ tasks' = [tasks EXCEPT ![t] =
                        [IdleTask EXCEPT !.pc = "refund_loaded", !.id = payment_id,
                                         !.old_status = (CHOOSE p \in found : TRUE).status]]
                /\ cache' = CacheAfterGet("payments", payments, payment_id)
        /\ UNCHANGED <<payments, consultations, payCache, notified, refundCalls, hist, eval>>

\* the status test on the loaded instance, then the provider refund call is issued
rf_call(t) ==
    /\ tasks[t].pc = "refund_loaded"
    /\ IF RefundAllowed([status |-> tasks[t].old_status])
       THEN /\ refundCalls' = Bump(refundCalls, tasks[t].id, MaxRefundCalls)
            /\ tasks' = [tasks EXCEPT ![t].pc = "refund_called"]
       ELSE /\ tasks' = [tasks EXCEPT ![t].pc = "done", ![t].ret = "false"]
            /\ UNCHANGED refundCalls
    /\ UNCHANGED <<payments, consultations, cache, payCache, notified, hist, eval>>

\* the provider answers; on success REFUNDED is committed and "payment:<id>" deleted
rf_answer(t, accepted) ==
    /\ tasks[t].pc = "refund_called"
    /\ IF accepted
       THEN /\ payments' = [payments EXCEPT ![tasks[t].id] =
                   [@ EXCEPT !.status = "REFUNDED", !.refund = TRUE]]
            /\ payCache' = payCache \ {tasks[t].id}
            /\ tasks' = [tasks EXCEPT ![t].pc = "done", ![t].ret = "true",
                                       ![t].new_status = "REFUNDED"]
       ELSE /\ tasks' = [tasks EXCEPT ![t].pc = "done", ![t].ret = "false"]
            /\ UNCHANGED <<payments, payCache>>
    /\ UNCHANGED <<consultations, cache, notified, refundCalls, hist, eval>>

(* ----------------- schedule_consultation, await by await --------------- *)
\* ConsultationService.schedule_consultation up to the return of self.get
sc_get(t, consultation_id, scheduled_time) ==
    LET found == Get("consultations", consultations, consultation_id)
    IN  /\ tasks[t].pc = "idle"
        /\ IF found = {}
           THEN /\ tasks' = [tasks EXCEPT ![t] = [IdleTask EXCEPT !.pc = "done", !.ret = "false"]]
                /\ UNCHANGED cache
           ELSE /\ tasks' = [tasks EXCEPT ![t] =
                        [IdleTask EXCEPT !.pc = "schedule_loaded", !.id = consultation_id,
                                         !.old_status = (CHOOSE c \in found : TRUE).status,
                                         !.scheduled_time = scheduled_time]]
                /\ cache' = CacheAfterGet("consultations", consultations, consultation_id)
        /\ UNCHANGED <<payments, consultations, payCache, notified, refundCalls, hist, eval>>

\* the status and time tests, then the availability query on the committed rows
sc_check(t) ==
    /\ tasks[t].pc = "schedule_loaded"
    /\ tasks' = [tasks EXCEPT ![t] =
            IF /\ tasks[t].old_status = "PAID"
               /\ _is_valid_time(tasks[t].scheduled_time)
               /\ _is_time_available(tasks[t].scheduled_time)
            THEN [@ EXCEPT !.pc = "schedule_available"]
            ELSE [@ EXCEPT !.pc = "done", !.ret = "ValidationError"]]
    /\ UNCHANGED <<payments, consultations, cache, payCache, notified, refundCalls, hist, eval>>

\* scheduled_time and SCHEDULED are assigned and committed, then delete_pattern raises
sc_commit(t) ==
    /\ tasks[t].pc = "schedule_available"
    /\ consultations' = [consultations EXCEPT ![tasks[t].id] =
            [@ EXCEPT !.scheduled_time = tasks[t].scheduled_time, !.status = "SCHEDULED"]]
    /\ tasks' = [tasks EXCEPT ![t].pc = "done",
                               ![t].ret = AfterScheduleCommit("schedule_consultation").ret,
                               ![t].new_status = "SCHEDULED"]
    /\ UNCHANGED <<payments, cache, payCache, notified, refundCalls, hist, eval>>

(* ------------------------------- Next --------------------------------- *)
CreateConsultation ==
    /\ Len(consultations) < MaxConsultations
    /\ UNCHANGED <<tasks, eval>>
    /\ \E a \in ConsultationAmounts : create_consultation(a)
CreatePayment ==
    /\ Len(payments) < MaxPayments
    /\ UNCHANGED <<tasks, eval>>
    /\ \E a \in Amounts, c \in ConsIds, p \in Providers, ok \in BOOLEAN :
            PaymentService_create_payment(a, c, p, ok)
\* a payment request of the consultation's own amount through the click provider
CreateClickPayment ==
    /\ Len(payments) < MaxPayments
    /\ UNCHANGED <<tasks, eval>>
    /\ \E c \in ConsIds, ok \in BOOLEAN : PaymentService_create_payment(50000, c, "click", ok)
ProcessCallback ==
    UNCHANGED <<tasks, eval>> /\ \E x \in Deliveries : PaymentService_process_callback(x[1], x[2])
UnifiedProcessCallback ==
    UNCHANGED <<tasks, eval>> /\ \E x \in Deliveries : UnifiedPaymentService_process_callback(x[1], x[2])
ProcessRefund == UNCHANGED <<tasks, eval>> /\ \E i \in PayIds, ok \in BOOLEAN : PaymentService_process_refund(i, ok)
PaymentComplete == UNCHANGED <<tasks, eval>> /\ \E i \in PayIds : Payment_set_status(i, "Payment.complete", "COMPLETED", "T1")
PaymentFail == UNCHANGED <<tasks, eval>> /\ \E i \in PayIds : Payment_set_status(i, "Payment.fail", "FAILED", NoTxn)
PaymentCancel == UNCHANGED <<tasks, eval>> /\ \E i \in PayIds : Payment_set_status(i, "Payment.cancel", "CANCELLED", NoTxn)
PaymentRefund == UNCHANGED <<tasks, eval>> /\ \E i \in PayIds, a \in Amounts : Payment_refund(i, a)
Cleanup == UNCHANGED <<tasks, eval>> /\ \E stale \in SUBSET PayIds : _cleanup_expired_data(stale)
Schedule == UNCHANGED <<tasks, eval>> /\ \E c \in ConsIds, t \in Times : schedule_consultation(c, t)
ConfirmPayment == UNCHANGED <<tasks, eval>> /\ \E c \in ConsIds, i \in PayIds, a \in Amounts : confirm_payment(c, i, a)
Cancel ==
    UNCHANGED <<tasks, eval>> /\ \E c \in ConsIds : cancel_consultation(c, "", TRUE, 0)
Complete ==
    UNCHANGED <<tasks, eval>> /\ \E c \in ConsIds : complete_consultation(c, NoRating, "")
HandlePaymentCancellation == UNCHANGED <<tasks, eval>> /\ \E c \in ConsIds : handle_payment_cancellation(c)
\* the status history of consultation c has room for one more record
HistoryRoom(c) ==
    c \in DOMAIN consultations => consultations[c].meta_status_history < MaxHistory

UpdateConsultationStatus ==
    UNCHANGED <<tasks, eval>> /\ \E c \in ConsIds, st \in Statuses, t \in {NoTime} :
        HistoryRoom(c) /\ update_consultation_status(c, st, t)
ExpirePayment == UNCHANGED <<tasks, eval>> /\ \E i \in PayIds : CacheExpire("payments", i)
ExpireConsultation == UNCHANGED <<tasks, eval>> /\ \E i \in ConsIds : CacheExpire("consultations", i)

\* settlement: payment creation and the webhook callbacks of both services
Next ==
    \/ CreateConsultation
    \/ CreatePayment
    \/ ProcessCallback
    \/ UnifiedProcessCallback
    \/ ExpirePayment

Spec == Init /\ [][Next]_vars

\* the payment state machine: every operation that writes a payment status
NextPayment ==
    \/ CreateConsultation
    \/ CreatePayment
    \/ ProcessCallback
    \/ ProcessRefund
    \/ PaymentComplete
    \/ PaymentFail
    \/ PaymentCancel
    \/ PaymentRefund
    \/ Cleanup
    \/ ExpirePayment

SpecPayment == Init /\ [][NextPayment]_vars

\* the consultation state machine: every operation that writes a consultation status
NextConsultation ==
    \/ CreateConsultation
    \/ CreateClickPayment
    \/ ProcessCallback
    \/ Schedule
    \/ ConfirmPayment
    \/ Cancel
    \/ Complete
    \/ HandlePaymentCancellation
    \/ UpdateConsultationStatus
    \/ ExpireConsultation

SpecConsultation == Init /\ [][NextConsultation]_vars

\* concurrent webhook deliveries for one PENDING payment of one PENDING consultation
ConcDeliveries ==
    {<<"click", Payload("T1", FormatOrder(1), k, "good")>> : k \in {"paid", "failed"}}
        \cup {<<"click", Payload("T1", FormatOrder(1), "paid", "forged")>>}

InitConc ==
    /\ payments = <<NewPayment(50000, 1, "click")>>
    /\ consultations = <<NewConsultation(50000)>>
    /\ cache \in {[payments |-> [EmptyCache(MaxPayments) EXCEPT ![1] = c],
                    consultations |-> EmptyCache(MaxConsultations),
                    slots |-> EmptySlots] :
                        c \in {{}, {to_dict("payments", NewPayment(50000, 1, "click"))}}}
    /\ payCache = {1}
    /\ notified = [i \in PayIds |-> 0]
    /\ refundCalls = [i \in PayIds |-> 0]
    /\ hist = Rejected("init", "none", "")
    /\ tasks = [t \in TaskIds |-> IdleTask]
    /\ eval = NoEval

CbGet == \E t \in TaskIds, x \in ConcDeliveries : cb_get(t, x[1], x[2])
CbCommit == \E t \in TaskIds : cb_commit(t)
CbHandle == \E t \in TaskIds : cb_handle(t)
CbNotify == \E t \in TaskIds : cb_notify(t)

NextConc ==
    \/ CbGet
    \/ CbCommit
    \/ CbHandle
    \/ CbNotify

SpecConc == InitConc /\ [][NextConc]_vars

(* ------------------------------ claims -------------------------------- *)
\* the fields both callback services may touch
Settled == <<payments, consultations, cache, payCache, notified>>

\* PaymentService accepted the delivery x in the step before
LastAccepted(x) ==
    /\ hist.op = "process_callback" /\ hist.ret = "true"
    /\ hist.provider = x[1]
    /\ hist.id = ResolvedId(x[1], x[2])
    /\ hist.status = ParseStatus(x[2].code)

\* UnifiedPaymentService accepted the delivery x in the step before
LastUnifiedAccepted(x) ==
    /\ hist.op = "unified_process_callback" /\ hist.ret = "true"
    /\ hist.provider = x[1]
    /\ hist.id = UnifiedResolvedId(x[1], x[2])
    /\ hist.status = ParseStatus(x[2].code)

\* C1: when a callback that was accepted is delivered again right away, the second call
\* returns true, leaves every Payment and Consultation field as it was and attempts no
\* notification
C1_IdempotentCallback ==
    [][\A x \in Deliveries :
          /\ (LastAccepted(x) /\ PaymentService_process_callback(x[1], x[2]))
                => (/\ hist'.ret = "true"
                    /\ payments' = payments
                    /\ consultations' = consultations
                    /\ notified' = notified)
          /\ (LastUnifiedAccepted(x) /\ UnifiedPaymentService_process_callback(x[1], x[2]))
                => (/\ hist'.ret = "true"
                    /\ payments' = payments
                    /\ consultations' = consultations
                    /\ notified' = notified)]_vars

\* the payload carries all signed fields and the HMAC of them under the merchant's key
SignatureMatches(data) ==
    /\ Missing \notin {data.click_trans_id, data.merchant_trans_id, data.amount, data.sign_time}
    /\ data.sign_string = _generate_signature(SecretKey, ClickSignString(data))

\* C2: for a payload whose signature is not the recomputed HMAC, or that lacks a signed
\* field, verify_callback is false, process_callback of either service returns false, and
\* no payment, consultation, cache entry or notification count changes
C2_SignatureRejection ==
    [][\A x \in Deliveries : ~SignatureMatches(x[2]) =>
          /\ ~verify_callback(x[2])
          /\ (\/ PaymentService_process_callback(x[1], x[2])
              \/ UnifiedPaymentService_process_callback(x[1], x[2]))
                => (hist'.ret = "false" /\ UNCHANGED Settled)]_vars

\* a forged callback for an existing PENDING payment has just been refused
C2_Witness ==
    /\ hist.op = "unified_process_callback"
    /\ hist.ret = "false"
    /\ hist.log = "Invalid callback signature"
    /\ Len(payments) >= 1
    /\ payments[1].status = "PENDING"
    /\ notified[1] = 0

\* C3: when all concurrent process_callback tasks for the COMPLETED event of the payment
\* have returned true, the payment is COMPLETED, the consultation is PAID and exactly one
\* notification was attempted
C3_ConcurrentDelivery ==
    (\A t \in TaskIds :
        tasks[t].pc = "done" /\ tasks[t].ret = "true" /\ tasks[t].new_status = "COMPLETED")
        => (/\ payments[1].status = "COMPLETED"
            /\ consultations[1].status = "PAID"
            /\ notified[1] = 1)

AllowedPaymentTransitions ==
    {<<"PENDING", "PROCESSING">>, <<"PENDING", "COMPLETED">>, <<"PENDING", "FAILED">>,
     <<"PENDING", "CANCELLED">>, <<"COMPLETED", "REFUNDED">>}

\* C4: a payment's status only ever changes from PENDING to PROCESSING, COMPLETED, FAILED or
\* CANCELLED, or from COMPLETED to REFUNDED
C4_PaymentTransitions ==
    [][\A i \in DOMAIN payments :
          payments'[i].status # payments[i].status
              => <<payments[i].status, payments'[i].status>> \in AllowedPaymentTransitions]_vars

\* C5: after a callback was accepted the payment's status is the canonical status parsed from
\* its payload; a callback reporting FAILED or CANCELLED does not leave the payment COMPLETED
C5_StatusFromPayload ==
    (hist.op \in {"process_callback", "unified_process_callback"} /\ hist.ret = "true")
        => payments[hist.id].status = hist.status

\* the validly signed click callback reporting COMPLETED for payment i
CompletedEvent(i) == <<"click", Payload("T1", FormatOrder(i), "paid", "good")>>

C7_UnknownOrder ==
    [][\A x \in Deliveries :
          (/\ \E i \in 1..(MaxPayments + 1) :
                    x[2].order_id = FormatOrder(i) /\ i \notin DOMAIN payments
           /\ \/ PaymentService_process_callback(x[1], x[2])
              \/ UnifiedPaymentService_process_callback(x[1], x[2]))
          => (hist'.ret = "false" /\ payments' = payments /\ consultations' = consultations)]_vars

\* a verified callback for an order with no row has just been refused while a payment exists
C7_Witness ==
    /\ hist.op = "process_callback"
    /\ hist.ret = "false"
    /\ hist.log = "Payment not found"
    /\ Len(payments) >= 1
    /\ Len(consultations) >= 1

AllowedConsultationTransitions ==
    {<<"PENDING", "PAID">>, <<"PENDING", "CANCELLED">>,
     <<"PAID", "SCHEDULED">>, <<"PAID", "CANCELLED">>,
     <<"SCHEDULED", "COMPLETED">>, <<"SCHEDULED", "CANCELLED">>}

\* C8: a consultation's status only ever changes from PENDING to PAID or CANCELLED, from PAID
\* to SCHEDULED or CANCELLED, or from SCHEDULED to COMPLETED or CANCELLED
C8_ConsultationTransitions ==
    [][\A c \in DOMAIN consultations :
          consultations'[c].status # consultations[c].status
              => <<consultations[c].status, consultations'[c].status>>
                    \in AllowedConsultationTransitions]_vars

\* C9: when a payment reaches COMPLETED while its consultation is not PENDING, the
\* consultation's status, is_paid and paid_at stay as they were
C9_MarkPaidGuard ==
    [][\A i \in DOMAIN payments :
          (/\ payments[i].status # "COMPLETED"
           /\ payments'[i].status = "COMPLETED"
           /\ consultations[payments[i].consultation_id].status # "PENDING")
          => LET before == consultations[payments[i].consultation_id]
                 after == consultations'[payments[i].consultation_id]
             IN  /\ after.status = before.status
                 /\ after.is_paid = before.is_paid
                 /\ after.paid_at = before.paid_at]_vars

\* C10: the provider refund call is issued only for a payment that is COMPLETED and carries
\* no refund, and a refund request for a REFUNDED payment returns failure
C10_RefundOnce ==
    [][\A i \in DOMAIN payments :
          /\ refundCalls'[i] # refundCalls[i]
                => (payments[i].status = "COMPLETED" /\ ~payments[i].refund)
          /\ (payments[i].status = "REFUNDED" /\ hist'.op = "process_refund" /\ hist' # hist)
                => hist'.ret = "false"]_vars

\* concurrent refund requests for one COMPLETED payment of a PAID consultation
CompletedPayment == [NewPayment(50000, 1, "click") EXCEPT !.status = "COMPLETED",
                                                          !.transaction_id = "T1"]

InitConcRefund ==
    /\ payments = <<CompletedPayment>>
    /\ consultations = <<[NewConsultation(50000) EXCEPT !.status = "PAID",
                                                         !.payment_completed_at = TRUE]>>
    /\ cache \in {[payments |-> [EmptyCache(MaxPayments) EXCEPT ![1] = c],
                    consultations |-> EmptyCache(MaxConsultations),
                    slots |-> EmptySlots] :
                        c \in {{}, {to_dict("payments", NewPayment(50000, 1, "click"))},
                               {to_dict("payments", CompletedPayment)}}}
    /\ payCache = {}
    /\ notified = [i \in PayIds |-> IF i = 1 THEN 1 ELSE 0]
    /\ refundCalls = [i \in PayIds |-> 0]
    /\ hist = Rejected("init", "none", "")
    /\ tasks = [t \in TaskIds |-> IdleTask]
    /\ eval = NoEval

RfGet == \E t \in TaskIds : rf_get(t, 1)
RfCall == \E t \in TaskIds : rf_call(t)
RfAnswer == \E t \in TaskIds, ok \in BOOLEAN : rf_answer(t, ok)

NextConcRefund ==
    \/ RfGet
    \/ RfCall
    \/ RfAnswer
    \/ ExpirePayment

SpecConcRefund == InitConcRefund /\ [][NextConcRefund]_vars

\* concurrent schedule calls: two PAID consultations, each with its COMPLETED payment
PaidConsultation == [NewConsultation(50000) EXCEPT !.status = "PAID",
                                                  !.payment_completed_at = TRUE]

InitConcSchedule ==
    /\ payments = <<CompletedPayment>>
    /\ consultations = <<PaidConsultation, PaidConsultation>>
    /\ cache = [payments |-> EmptyCache(MaxPayments), consultations |-> EmptyCache(2),
                slots |-> EmptySlots]
    /\ payCache = {}
    /\ notified = [i \in PayIds |-> IF i = 1 THEN 1 ELSE 0]
    /\ refundCalls = [i \in PayIds |-> 0]
    /\ hist = Rejected("init", "none", "")
    /\ tasks = [t \in TaskIds |-> IdleTask]
    /\ eval = NoEval

ScGet == \E t \in TaskIds, c \in 1..2, time \in Times : sc_get(t, c, time)
ScCheck == \E t \in TaskIds : sc_check(t)
ScCommit == \E t \in TaskIds : sc_commit(t)

NextConcSchedule ==
    \/ ScGet
    \/ ScCheck
    \/ ScCommit

SpecConcSchedule == InitConcSchedule /\ [][NextConcSchedule]_vars

\* repeated payment attempts for one consultation: one more payment row than MaxPayments
MaxAttempts == MaxPayments + 1
AttemptIds == 1..MaxAttempts

InitCharge ==
    /\ payments = <<>>
    /\ consultations = <<>>
    /\ cache = [payments |-> EmptyCache(MaxAttempts), consultations |-> EmptyCache(MaxConsultations),
                slots |-> EmptySlots]
    /\ payCache = {}
    /\ notified = [i \in AttemptIds |-> 0]
    /\ refundCalls = [i \in AttemptIds |-> 0]
    /\ hist = Rejected("init", "none", "")
    /\ tasks = [t \in TaskIds |-> IdleTask]
    /\ eval = NoEval

SelectPayment ==
    /\ Len(payments) < MaxAttempts
    /\ UNCHANGED <<tasks, eval>>
    /\ \E p \in {"click", "payme"}, c \in ConsIds, ok \in BOOLEAN :
            process_payment_selection(p, c, 50000, ok)
ExpireAttempt == UNCHANGED <<tasks, eval>> /\ \E i \in AttemptIds : CacheExpire("payments", i)

NextCharge ==
    \/ CreateConsultation
    \/ SelectPayment
    \/ ProcessCallback
    \/ ExpireAttempt

SpecCharge == InitCharge /\ [][NextCharge]_vars

\* C11: is_refundable is true exactly when the payment is COMPLETED, carries no refund and
\* was created at most 30 days ago; any age above 30 days is not refundable
C11_RefundEligibility ==
    eval.fn \in {"is_refundable", "is_refundable_flag"}
        => (eval.out <=> (/\ eval.status = "COMPLETED"
                          /\ eval.refund_amount = 0
                          /\ eval.age <= REFUND_DAYS * DAY))

\* C12: with the refund requests for one COMPLETED payment interleaved in any order, the
\* provider refund call is made at most once
C12_SingleProviderRefund ==
    \A i \in DOMAIN payments : refundCalls[i] <= 1

\* two schedule calls for two different consultations and the same valid time have returned
SameSlotCalls(t1, t2) ==
    /\ t1 # t2
    /\ tasks[t1].pc = "done" /\ tasks[t2].pc = "done"
    /\ tasks[t1].old_status = "PAID" /\ tasks[t2].old_status = "PAID"
    /\ tasks[t1].id # tasks[t2].id
    /\ tasks[t1].scheduled_time = tasks[t2].scheduled_time
    /\ _is_valid_time(tasks[t1].scheduled_time)

\* C13: of two schedule calls for two different PAID consultations and the same time, exactly
\* one ends with its consultation SCHEDULED for that time; the other is rejected with
\* ValidationError and its consultation stays PAID
C13_NoDoubleBooking ==
    \A t1, t2 \in TaskIds : SameSlotCalls(t1, t2) =>
        \/ /\ tasks[t1].ret = "true" /\ tasks[t2].ret = "ValidationError"
           /\ consultations[tasks[t1].id].status = "SCHEDULED"
           /\ consultations[tasks[t2].id].status = "PAID"
        \/ /\ tasks[t2].ret = "true" /\ tasks[t1].ret = "ValidationError"
           /\ consultations[tasks[t2].id].status = "SCHEDULED"
           /\ consultations[tasks[t1].id].status = "PAID"

\* the COMPLETED payments of a consultation
CompletedPaymentsOf(c) ==
    {i \in DOMAIN payments : payments[i].consultation_id = c /\ payments[i].status = "COMPLETED"}

\* C14: when cancel succeeds on a consultation that has a COMPLETED payment, a refund of that
\* payment is requested from the provider
C14_CancelTriggersRefund ==
    [][\A c \in DOMAIN consultations :
          (cancel_consultation(c, "", TRUE, 0) /\ hist'.ret = "true" /\ CompletedPaymentsOf(c) # {})
              => \E i \in CompletedPaymentsOf(c) : refundCalls'[i] = refundCalls[i] + 1]_vars

\* C15: for each consultation at most one of its payments is COMPLETED
C15_NoDoubleCharge ==
    \A c \in DOMAIN consultations : Cardinality(CompletedPaymentsOf(c)) <= 1

\* C19: when the checkout URL could not be obtained for a payment, the next request for the
\* same consultation and provider inserts no further Payment row
C19_RetryReusesPayment ==
    [][(/\ hist.op = "create_payment"
        /\ hist.log = "Failed to get payment URL"
        /\ \E a \in Amounts, ok \in BOOLEAN :
              process_payment_selection(hist.provider, payments[hist.id].consultation_id, a, ok))
       => Len(payments') = Len(payments)]_vars

(* ---------------- the consultation update after a commit --------------- *)
\* _handle_payment_status_change when session.get or session.commit raises, or the process
\* dies after the payment commit: the exception is logged and swallowed, the consultation
\* and the notification are left as they were and process_callback returns True
cb_handle_fail(t) ==
    /\ tasks[t].pc = "committed"
    /\ tasks' = [tasks EXCEPT ![t].pc = "done", ![t].ret = "true"]
    /\ UNCHANGED <<payments, consultations, cache, payCache, notified, refundCalls, hist, eval>>

CbHandleFail == \E t \in TaskIds : cb_handle_fail(t)

\* process_callback has returned: the request is over and its worker takes the next one
cb_return(t) ==
    /\ tasks[t].pc = "done"
    /\ tasks' = [tasks EXCEPT ![t] = IdleTask]
    /\ UNCHANGED <<payments, consultations, cache, payCache, notified, refundCalls, hist, eval>>

CbReturn == \E t \in TaskIds : cb_return(t)

\* webhook deliveries whose consultation update may fail, with the periodic sweep
NextReconcile ==
    \/ CbGet
    \/ CbCommit
    \/ CbHandle
    \/ CbHandleFail
    \/ CbNotify
    \/ CbReturn
    \/ Cleanup
    \/ ExpirePayment

\* a request that was started runs to its end, the sweep and the cache timeout keep
\* running; nothing in the program schedules another delivery
SpecReconcile ==
    /\ InitConc
    /\ [][NextReconcile]_vars
    /\ WF_vars(CbCommit)
    /\ WF_vars(CbHandle \/ CbHandleFail)
    /\ WF_vars(CbNotify)
    /\ WF_vars(CbReturn)
    /\ WF_vars(Cleanup)
    /\ WF_vars(ExpirePayment)

\* C16: a payment committed as COMPLETED whose consultation is still PENDING leads to a
\* state where that consultation is no longer PENDING
C16_EventualConsistency ==
    \A i \in PayIds :
        (/\ payments[i].status = "COMPLETED"
         /\ consultations[payments[i].consultation_id].status = "PENDING")
            ~> (consultations[payments[i].consultation_id].status # "PENDING")

(* ------------------------- checkout of a payment ----------------------- *)
\* amounts around both limits
AmountProbes == {999, 1000, 50000, 10000000, 10000001}

CreatePaymentProbe ==
    /\ Len(payments) < MaxAttempts
    /\ UNCHANGED <<tasks, eval>>
    /\ \E a \in AmountProbes, c \in ConsIds, p \in Providers, ok \in BOOLEAN :
            PaymentService_create_payment(a, c, p, ok)

UnifiedCreatePaymentProbe ==
    /\ Len(payments) < MaxAttempts
    /\ UNCHANGED <<tasks, eval>>
    /\ \E a \in AmountProbes, c \in ConsIds, p \in Providers, ok \in BOOLEAN :
            UnifiedPaymentService_create_payment(a, c, p, ok)

NextCheckout ==
    \/ CreateConsultation
    \/ CreatePaymentProbe
    \/ UnifiedCreatePaymentProbe
    \/ ExpireAttempt

SpecCheckout == InitCharge /\ [][NextCheckout]_vars

\* a create_payment call of either service
CreatePaymentCall(a, c, p, ok) ==
    \/ PaymentService_create_payment(a, c, p, ok)
    \/ UnifiedPaymentService_create_payment(a, c, p, ok)

\* C17: a create_payment call with an amount below 1,000 or above 10,000,000 fails and
\* inserts no row, a call with 50,000 for a known provider and consultation inserts one,
\* and every Payment row has 1,000 <= amount <= 10,000,000
C17_AmountBounds ==
    /\ [](\A i \in DOMAIN payments :
            payments[i].amount >= 1000 /\ payments[i].amount <= 10000000)
    /\ [][\A a \in AmountProbes, c \in ConsIds, p \in Providers, ok \in BOOLEAN :
            CreatePaymentCall(a, c, p, ok) =>
                /\ (a < 1000 \/ a > 10000000) =>
                        (payments' = payments /\ hist'.ret = "PaymentError")
                /\ (a = 50000 /\ ok /\ p \in PaymentProvider /\ c \in DOMAIN consultations) =>
                        (/\ payments' = Append(payments, NewPayment(50000, c, p))
                         /\ hist'.ret = "ok")]_vars

\* an out-of-range amount was refused while a consultation was waiting for its payment
C17_Witness ==
    /\ hist.log = "Amount must be between"
    /\ hist.ret = "PaymentError"
    /\ consultations # <<>>
    /\ payments = <<>>

\* C18: when the adapter returns no checkout URL for an otherwise valid create_payment call,
\* the inserted row stays in the table with status PENDING and the call ends in PaymentError
C18_CheckoutFailureKeepsPayment ==
    [][\A a \in AmountProbes, c \in ConsIds, p \in Providers :
        (/\ a >= 1000 /\ a <= 10000000
         /\ p \in PaymentProvider
         /\ c \in DOMAIN consultations
         /\ CreatePaymentCall(a, c, p, FALSE))
        => /\ payments' = Append(payments, NewPayment(a, c, p))
           /\ payments'[Len(payments')].status = "PENDING"
           /\ hist'.ret = "PaymentError"]_vars

\* a checkout failure has happened and its row is in the table, PENDING
C18_Witness ==
    /\ hist.log = "Failed to get payment URL"
    /\ hist.ret = "PaymentError"
    /\ hist.id \in DOMAIN payments
    /\ payments[hist.id].status = "PENDING"

\* C20: no two Payment rows share a provider and a non-null provider_transaction_id, and
\* after a callback was verified and accepted the payment it names carries the provider's
\* transaction id in provider_transaction_id
C20_IdempotencyAnchor ==
    /\ \A i, j \in DOMAIN payments :
            (/\ i # j
             /\ payments[i].provider_transaction_id # NoTxn
             /\ payments[i].provider = payments[j].provider)
            => payments[i].provider_transaction_id # payments[j].provider_transaction_id
    /\ \A x \in Deliveries :
            LastAccepted(x) => payments[hist.id].provider_transaction_id = x[2].click_trans_id

(* ---------------------- the life of a consultation --------------------- *)
Ratings == {NoRating, 5}
Feedbacks == {"", "good"}
Reasons == {"", "busy"}
\* hours since Monday 00:00: Monday 10:00 and 18:00, Wednesday 10:00
LifecycleTimes == Times \cup {2 * DAY + 10}
\* the clock at a call: Monday 00:00 and Tuesday 16:00
Nows == {0, DAY + 16}

ScheduleAt ==
    UNCHANGED <<tasks, eval>> /\ \E c \in ConsIds, t \in LifecycleTimes : schedule_consultation(c, t)
CancelBy ==
    UNCHANGED <<tasks, eval>> /\ \E c \in ConsIds, r \in Reasons, u \in BOOLEAN, n \in Nows :
        cancel_consultation(c, r, u, n)
CompleteWith ==
    UNCHANGED <<tasks, eval>> /\ \E c \in ConsIds, r \in Ratings, f \in Feedbacks :
        complete_consultation(c, r, f)
AdminUpdate ==
    UNCHANGED <<tasks, eval>> /\ \E c \in ConsIds, st \in Statuses, t \in LifecycleTimes \cup {NoTime} :
        HistoryRoom(c) /\ update_consultation_status(c, st, t)

\* every operation on a consultation, without the payment side
NextLifecycle ==
    \/ CreateConsultation
    \/ ConfirmPayment
    \/ ScheduleAt
    \/ CancelBy
    \/ CompleteWith
    \/ AdminUpdate
    \/ HandlePaymentCancellation
    \/ ExpireConsultation

SpecLifecycle == Init /\ [][NextLifecycle]_vars

\* C21: a consultation whose status is COMPLETED has its rating and its completion
\* timestamp set
C21_CompletedHasRating ==
    \A i \in DOMAIN consultations :
        consultations[i].status = "COMPLETED" =>
            (consultations[i].rating # NoRating /\ consultations[i].completed_at)

\* C22: every consultation has reschedule_count <= 3, and a scheduled_time that is set falls
\* on Monday to Saturday at an hour from 9 to 17
C22_ScheduleInvariants ==
    \A i \in DOMAIN consultations :
        /\ consultations[i].reschedule_count <= 3
        /\ consultations[i].scheduled_time # NoTime =>
                /\ (consultations[i].scheduled_time \div 24) % 7 \in 0..5
                /\ consultations[i].scheduled_time % 24 >= 9
                /\ consultations[i].scheduled_time % 24 < 18

\* the time t is Monday to Saturday at an hour from 9 to 17
OnWorkingHour(t) == (t \div 24) % 7 \in 0..5 /\ t % 24 >= 9 /\ t % 24 < 18

\* a consultation other than c is SCHEDULED or CONFIRMED at exactly t
HeldByOther(c, t) ==
    \E j \in DOMAIN consultations :
        /\ j # c
        /\ consultations[j].scheduled_time = t
        /\ consultations[j].status \in {"SCHEDULED", "CONFIRMED"}

\* C23: schedule_consultation on a consultation that is not PAID, or for a time outside
\* working hours, or for a time another SCHEDULED or CONFIRMED consultation holds, raises
\* ValidationError and leaves the consultation's status and scheduled_time as they were
C23_SchedulePreconditions ==
    [][\A c \in ConsIds, t \in LifecycleTimes :
        (/\ c \in DOMAIN consultations
         /\ schedule_consultation(c, t)
         /\ \/ consultations[c].status # "PAID"
            \/ ~OnWorkingHour(t)
            \/ HeldByOther(c, t))
        => /\ hist'.ret = "ValidationError"
           /\ consultations'[c].status = consultations[c].status
           /\ consultations'[c].scheduled_time = consultations[c].scheduled_time]_vars

\* C24: a schedule_consultation for time t that passes its checks leaves the consultation SCHEDULED at t
\* with cancellation_deadline = t - 24h, and when a scheduled_time was already set it adds one
\* to reschedule_count and keeps the previous time in rescheduled_from
C24_ScheduleEffects ==
    [][\A c \in ConsIds, t \in LifecycleTimes :
        (/\ c \in DOMAIN consultations
         /\ schedule_consultation(c, t)
         /\ hist'.ret \notin {"false", "ValidationError"})
        => /\ consultations'[c].status = "SCHEDULED"
           /\ consultations'[c].scheduled_time = t
           /\ consultations'[c].cancellation_deadline = t - 24
           /\ consultations[c].scheduled_time # NoTime =>
                /\ consultations'[c].reschedule_count = consultations[c].reschedule_count + 1
                /\ consultations'[c].rescheduled_from = consultations[c].scheduled_time]_vars

(* --------------------------- Consultation.can_cancel ------------------- *)
\* Consultation.can_cancel: a consultation without scheduled_time can always be cancelled
can_cancel(status, scheduled_time, cancellation_deadline, utcnow) ==
    IF scheduled_time = NoTime
    THEN TRUE
    ELSE /\ status \notin {"COMPLETED", "CANCELLED"}
         /\ (cancellation_deadline = NoTime \/ utcnow < cancellation_deadline)

\* Wednesday 10:00 and its deadline a day before, and clock readings around the deadline
CancelSlots == {NoTime, 2 * DAY + 10}
CancelDeadlines == {NoTime, DAY + 10}
CancelNows == {0, DAY + 9, DAY + 10, DAY + 11}

EvalCanCancel ==
    /\ \E st \in ConsultationStatus, t \in CancelSlots, d \in CancelDeadlines, n \in CancelNows :
            eval' = [fn |-> "can_cancel", status |-> st, scheduled_time |-> t,
                     cancellation_deadline |-> d, utcnow |-> n,
                     out |-> can_cancel(st, t, d, n)]
    /\ UNCHANGED <<payments, consultations, cache, payCache, notified, refundCalls, hist, tasks>>

NextCanCancel == EvalCanCancel

SpecCanCancel == Init /\ [][NextCanCancel]_vars

\* C25: can_cancel is true exactly when the status is neither COMPLETED nor CANCELLED and the
\* cancellation deadline is unset or still ahead
C25_CanCancel ==
    eval.fn = "can_cancel" =>
        (eval.out <=> (/\ eval.status \notin {"COMPLETED", "CANCELLED"}
                       /\ (eval.cancellation_deadline = NoTime
                            \/ eval.utcnow < eval.cancellation_deadline)))

\* C26: cancel_consultation on a consultation that is neither PENDING nor SCHEDULED raises
\* ValidationError and leaves the row as it was; from PENDING or SCHEDULED it sets CANCELLED
\* and records the time, the actor flag and the reason when one is given
C26_CancelPreconditions ==
    [][\A c \in ConsIds, r \in Reasons, u \in BOOLEAN, n \in Nows :
        (c \in DOMAIN consultations /\ cancel_consultation(c, r, u, n))
        => IF consultations[c].status \notin {"PENDING", "SCHEDULED"}
           THEN /\ hist'.ret = "ValidationError"
                /\ consultations'[c] = consultations[c]
           ELSE /\ consultations'[c].status = "CANCELLED"
                /\ consultations'[c].meta_cancelled_at = n
                /\ consultations'[c].meta_cancelled_by_user = (IF u THEN "true" ELSE "false")
                /\ r # "" => consultations'[c].meta_cancellation_reason = r]_vars

\* C27: a cancel request for a SCHEDULED consultation made when scheduled_time - 24h has
\* already passed does not set it CANCELLED and requests no refund
C27_CancellationWindow ==
    [][\A c \in ConsIds, r \in Reasons, u \in BOOLEAN, n \in Nows :
        (/\ c \in DOMAIN consultations
         /\ consultations[c].status = "SCHEDULED"
         /\ consultations[c].scheduled_time # NoTime
         /\ n >= consultations[c].scheduled_time - 24
         /\ cancel_consultation(c, r, u, n))
        => /\ consultations'[c].status # "CANCELLED"
           /\ refundCalls' = refundCalls]_vars

\* C28: complete_consultation on a consultation that is not SCHEDULED raises ValidationError
\* and changes nothing; from SCHEDULED it sets COMPLETED with or without a rating, persists
\* a completion timestamp, and persists rating and feedback only when a rating is given
C28_CompletePreconditions ==
    [][\A c \in ConsIds, r \in Ratings, f \in Feedbacks :
        (c \in DOMAIN consultations /\ complete_consultation(c, r, f))
        => IF consultations[c].status # "SCHEDULED"
           THEN /\ hist'.ret = "ValidationError"
                /\ consultations'[c] = consultations[c]
           ELSE /\ consultations'[c].status = "COMPLETED"
                /\ consultations'[c].completed_at \/ consultations'[c].meta_completed_at
                /\ IF r # NoRating
                   THEN /\ consultations'[c].meta_rating = r
                        /\ consultations'[c].meta_feedback = f
                   ELSE /\ consultations'[c].meta_rating = consultations[c].meta_rating
                        /\ consultations'[c].meta_feedback = consultations[c].meta_feedback]_vars

(* ------------------------------- refunds ------------------------------- *)
\* settlement by PaymentService followed by refund requests
NextRefund ==
    \/ CreateConsultation
    \/ CreatePayment
    \/ ProcessCallback
    \/ ProcessRefund
    \/ ExpirePayment

SpecRefund == Init /\ [][NextRefund]_vars

\* process_refund put the refund call for payment i to the provider in this step
RefundAsked(i, accepted) ==
    /\ PaymentService_process_refund(i, accepted)
    /\ hist'.op = "process_refund"
    /\ hist'.id = i

\* C29: when the provider is asked to refund a COMPLETED payment and accepts, the payment
\* becomes REFUNDED with the refund recorded and the call returns true; when it refuses, the
\* call returns false, the payment row stays as it was, and the provider was asked once
C29_RefundOutcome ==
    [][\A i \in PayIds, accepted \in BOOLEAN :
        (/\ i \in DOMAIN payments
         /\ payments[i].status = "COMPLETED"
         /\ RefundAsked(i, accepted))
        => IF accepted
           THEN /\ payments'[i].status = "REFUNDED"
                /\ payments'[i].refund
                /\ hist'.ret = "true"
           ELSE /\ payments'[i] = payments[i]
                /\ hist'.ret = "false"
                /\ refundCalls'[i] <= refundCalls[i] + 1]_vars

\* the provider refused a refund: the payment is still COMPLETED with nothing recorded
C29_Witness ==
    /\ hist.op = "process_refund"
    /\ hist.ret = "false"
    /\ hist.id \in DOMAIN payments
    /\ payments[hist.id].status = "COMPLETED"
    /\ ~payments[hist.id].refund
    /\ refundCalls[hist.id] = 1

(* ------------------------ a notification that fails -------------------- *)
\* a notification failure that would undo the payment's status write
PaymentsAfterNotifyFailure_rolled_back(rows, task) ==
    [rows EXCEPT ![task.id].status = task.old_status]

\* the payments table after _notify_user_about_payment failed: its except branch only logs
PaymentsAfterNotifyFailure(rows, task) == rows

\* _notify_user_about_payment raises inside (session.get, bot.send_message): the error is
\* logged, nothing is sent, and process_callback goes on to return True
cb_notify_fail(t) ==
    /\ tasks[t].pc = "handled"
    /\ payments' = PaymentsAfterNotifyFailure(payments, tasks[t])
    /\ tasks' = [tasks EXCEPT ![t].pc = "done", ![t].ret = "true"]
    /\ UNCHANGED <<consultations, cache, payCache, notified, refundCalls, hist, eval>>

CbNotifyFail == \E t \in TaskIds : cb_notify_fail(t)

NextNotify ==
    \/ CbGet
    \/ CbCommit
    \/ CbHandle
    \/ CbNotify
    \/ CbNotifyFail

SpecNotify == InitConc /\ [][NextNotify]_vars

\* C30: when the notification fails after a callback completed a payment, process_callback
\* still returns true, the payment row is left as committed and the consultation stays PAID
C30_NotificationIsolation ==
    [][\A t \in TaskIds :
        (/\ tasks[t].pc = "handled"
         /\ tasks[t].new_status = "COMPLETED"
         /\ cb_notify_fail(t))
        => /\ tasks'[t].ret = "true"
           /\ payments'[tasks[t].id] = payments[tasks[t].id]
           /\ consultations'[tasks[t].consultation_id].status = "PAID"]_vars

\* a callback that completed the payment has returned true although no notification went out
C30_Witness ==
    \E t \in TaskIds :
        /\ tasks[t].pc = "done"
        /\ tasks[t].ret = "true"
        /\ tasks[t].old_status = "PENDING"
        /\ tasks[t].new_status = "COMPLETED"
        /\ notified[tasks[t].id] = 0
        /\ payments[tasks[t].id].status = "COMPLETED"
        /\ consultations[tasks[t].consultation_id].status = "PAID"

(* -------------------------- provider registry -------------------------- *)
UnifiedCreatePayment ==
    /\ Len(payments) < MaxPayments
    /\ UNCHANGED <<tasks, eval>>
    /\ \E a \in Amounts, c \in ConsIds, p \in Providers, ok \in BOOLEAN :
            UnifiedPaymentService_create_payment(a, c, p, ok)

\* both services: payment creation and webhook callbacks under every provider key
NextProvider ==
    \/ CreateConsultation
    \/ CreatePayment
    \/ UnifiedCreatePayment
    \/ ProcessCallback
    \/ UnifiedProcessCallback
    \/ ExpirePayment

SpecProvider == Init /\ [][NextProvider]_vars

\* C31: a create_payment call under a provider key that has no adapter ends in PaymentError
\* with no Payment row inserted and nothing cached, and a process_callback delivery under
\* such a key returns false and leaves payments, consultations, caches and counters as
\* they were
C31_UnknownProvider ==
    [][/\ \A a \in Amounts, c \in ConsIds, p \in Providers \ PaymentProvider, ok \in BOOLEAN :
            CreatePaymentCall(a, c, p, ok) =>
                /\ hist'.ret = "PaymentError"
                /\ UNCHANGED <<payments, consultations, cache, payCache, notified, refundCalls>>
       /\ \A x \in Deliveries :
            (/\ x[1] \notin PaymentProvider
             /\ \/ PaymentService_process_callback(x[1], x[2])
                \/ UnifiedPaymentService_process_callback(x[1], x[2]))
            => /\ hist'.ret = "false"
               /\ UNCHANGED <<payments, consultations, cache, payCache, notified, refundCalls>>]_vars

\* a request under an unknown provider key was refused for a waiting consultation, with a
\* valid amount, and no row exists
C31_Witness ==
    /\ hist.op = "unified_create_payment"
    /\ hist.log = "Unknown payment provider"
    /\ consultations # <<>>
    /\ payments = <<>>

\* the PENDING payment of provider x[1] that the order reference of delivery x names
PendingTarget(x) ==
    LET id == _get_payment_by_order(x[2].order_id)
    IN  IF /\ id \in DOMAIN payments
           /\ payments[id].status = "PENDING"
           /\ payments[id].provider = x[1]
        THEN id ELSE NoId

\* the validly signed callback reporting COMPLETED for payment 1, under each provider
ProviderDeliveries == {<<p, Payload("T1", FormatOrder(1), "paid", "good")>> : p \in PaymentProvider}

\* C32: for each of click, payme and uzum, a validly signed callback for an existing PENDING
\* payment of that provider makes process_callback of either service return true and leaves
\* the payment in the status the callback reports
C32_UniformAdapters ==
    [][\A x \in ProviderDeliveries :
          (/\ SignatureMatches(x[2])
           /\ ParseStatus(x[2].code) # "NULL"
           /\ PendingTarget(x) # NoId
           /\ \/ PaymentService_process_callback(x[1], x[2])
              \/ UnifiedPaymentService_process_callback(x[1], x[2]))
          => /\ hist'.ret = "true"
             /\ payments'[PendingTarget(x)].status = ParseStatus(x[2].code)]_vars

\* C33: every step that changes a consultation's status adds exactly one record to its status
\* history, and no step shortens the history
C33_AuditHistory ==
    [][\A c \in DOMAIN consultations :
          /\ consultations'[c].meta_status_history >= consultations[c].meta_status_history
          /\ consultations'[c].status # consultations[c].status
                => consultations'[c].meta_status_history
                        = consultations[c].meta_status_history + 1]_vars

(* ------------------------- available time slots ------------------------ *)
\* the hourly slots of a day, from WORK_HOURS['start'] up to the last one before 'end'
SlotTimes(day) == {day * DAY + h : h \in WORK_START..(WORK_END - 1)}

\* the scheduled times of the day's SCHEDULED and CONFIRMED consultations
booked_times(day) ==
    {consultations[i].scheduled_time : i \in
        {j \in DOMAIN consultations :
            /\ consultations[j].scheduled_time # NoTime
            /\ consultations[j].scheduled_time \div DAY = day
            /\ consultations[j].status \in {"SCHEDULED", "CONFIRMED"}}}

\* the list get_available_slots computes from the rows
available_slots(day, now) ==
    {t \in SlotTimes(day) : t > now /\ t \notin booked_times(day)}

\* does get_available_slots answer from the "slots:<date>:all" entry (an empty list is falsy)
SlotsCached(day) == cache.slots[day] # {} /\ cache.slots[day] # {{}}

\* what get_available_slots(date) returns when the clock reads now
SlotsReturned(day, now) ==
    IF day < now \div DAY \/ day % 7 \notin WORKING_DAYS THEN {}
    ELSE IF SlotsCached(day) THEN CHOOSE list \in cache.slots[day] : TRUE
    ELSE available_slots(day, now)

\* ConsultationService.get_available_slots: a computed list is cached for five minutes
get_available_slots(day, now) ==
    /\ eval' = [fn |-> "get_available_slots", day |-> day, now |-> now,
                out |-> SlotsReturned(day, now)]
    /\ hist' = Rejected("get_available_slots", "ok", "")
    /\ cache' = IF day < now \div DAY \/ day % 7 \notin WORKING_DAYS \/ SlotsCached(day)
                THEN cache
                ELSE [cache EXCEPT !.slots[day] = {available_slots(day, now)}]
    /\ UNCHANGED <<payments, consultations, payCache, notified, refundCalls>>

GetAvailableSlots ==
    UNCHANGED tasks /\ \E d \in SlotDays, now \in Nows : get_available_slots(d, now)
ExpireSlots == UNCHANGED <<tasks, eval>> /\ \E d \in SlotDays : CacheExpire("slots", d)

\* booking: a consultation is paid and scheduled while availability is being queried
NextSlots ==
    \/ CreateConsultation
    \/ ConfirmPayment
    \/ ScheduleAt
    \/ GetAvailableSlots
    \/ ExpireSlots
    \/ ExpireConsultation

SpecSlots == Init /\ [][NextSlots]_vars

\* C34: a schedule_consultation call that passes its checks returns true and leaves no cached
\* availability for the day of its time, and get_available_slots returns no time that a
\* SCHEDULED or CONFIRMED consultation holds
C34_SlotCacheInvalidation ==
    [][/\ \A c \in ConsIds, t \in LifecycleTimes :
            (/\ c \in DOMAIN consultations
             /\ schedule_consultation(c, t)
             /\ hist'.ret \notin {"false", "ValidationError"})
            => /\ hist'.ret = "true"
               /\ cache'.slots[t \div DAY] = {}
       /\ \A d \in SlotDays, now \in Nows :
            get_available_slots(d, now) => \A t \in eval'.out : _is_time_available(t)]_vars

\* C35: the payment a lookup returns carries the committed status of its row, whether or not
\* the cache holds a snapshot of it
C35_CacheNotAuthoritative ==
    \A i \in DOMAIN payments :
        \A found \in Get("payments", payments, i) : found.status = payments[i].status

\* C36: a run of the cleanup task that finds PENDING payments older than 24 hours leaves each
\* of them FAILED or EXPIRED, a status of the payment status set, and leaves every payment
\* that was not PENDING as it was
C36_StalePaymentSweep ==
    [][\A stale \in SUBSET PayIds :
          _cleanup_expired_data(stale) =>
              /\ \A i \in stale :
                    payments'[i].status \in PaymentStatus \cap {"FAILED", "EXPIRED"}
              /\ \A i \in DOMAIN payments :
                    payments[i].status # "PENDING" => payments'[i] = payments[i]]_vars

\* C37: every step that moves a consultation to PAID leaves a COMPLETED payment of that
\* consultation
C37_PaidImpliesSettled ==
    [][\A c \in DOMAIN consultations :
          (consultations[c].status # "PAID" /\ consultations'[c].status = "PAID")
              => \E i \in DOMAIN payments' :
                    /\ payments'[i].consultation_id = c
                    /\ payments'[i].status = "COMPLETED"]_vars

(* ---------------------- settlement of a chosen amount ------------------ *)
\* the amounts a "pay:<provider>:<id>:<amount>" button can carry: the lowest accepted amount
\* and the consultation's price
SelectedAmounts == {MIN_AMOUNT, 50000}

SelectAmount ==
    /\ Len(payments) < MaxPayments
    /\ UNCHANGED <<tasks, eval>>
    /\ \E c \in ConsIds, a \in SelectedAmounts, ok \in BOOLEAN :
            process_payment_selection("click", c, a, ok)

\* a payment of a chosen amount is requested and settled by webhook or by confirm_payment
NextSettle ==
    \/ CreateConsultation
    \/ SelectAmount
    \/ ProcessCallback
    \/ ConfirmPayment
    \/ ExpirePayment
    \/ ExpireConsultation

SpecSettle == Init /\ [][NextSettle]_vars

\* C38: a step in which a payment whose amount differs from its consultation's amount becomes
\* COMPLETED does not move that consultation to PAID, and confirm_payment with an amount other
\* than the consultation's leaves the consultation's status as it was
C38_AmountMatch ==
    [][/\ \A i \in DOMAIN payments :
            (/\ payments[i].status # "COMPLETED"
             /\ payments'[i].status = "COMPLETED"
             /\ payments[i].amount # consultations[payments[i].consultation_id].amount)
            => ~(/\ consultations[payments[i].consultation_id].status # "PAID"
                 /\ consultations'[payments[i].consultation_id].status = "PAID")
       /\ \A c \in DOMAIN consultations, i \in PayIds, a \in Amounts :
            (a # consultations[c].amount /\ confirm_payment(c, i, a))
                => consultations'[c].status = consultations[c].status]_vars

\* C39: every time get_available_slots returns is Monday to Saturday at an hour from 9 to 17,
\* later than the clock reading and accepted by _is_valid_time, and schedule_consultation for
\* a PAID consultation at a returned time that no consultation holds returns true and leaves
\* the consultation SCHEDULED at that time
C39_OfferedSlotsBookable ==
    [][/\ \A d \in SlotDays, now \in Nows :
            get_available_slots(d, now) =>
                \A t \in eval'.out : OnWorkingHour(t) /\ t > now /\ _is_valid_time(t)
       /\ \A c \in DOMAIN consultations, t \in LifecycleTimes :
            (/\ eval.fn = "get_available_slots"
             /\ t \in eval.out
             /\ consultations[c].status = "PAID"
             /\ _is_time_available(t)
             /\ schedule_consultation(c, t))
            => /\ hist'.ret = "true"
               /\ consultations'[c].status = "SCHEDULED"
               /\ consultations'[c].scheduled_time = t]_vars

====
